---- MODULE Spec2Model ----
(***************************************************************************)
(* A model of mcp-project-tracker: the line-delimited JSON-RPC server of   *)
(* src/mcp-server.js (stdin framing, method routing, tool handlers) and    *)
(* the SQLite store of database.js / schema.sql it drives.                 *)
(*                                                                         *)
(* The 'data' callback of stdin is an async function: it runs to its first *)
(* await on a store statement, is suspended there, and is resumed by the   *)
(* statement's completion callback.  Several invocations may be suspended  *)
(* at once; they share this.inputBuffer and the store.  A statement runs   *)
(* atomically at the step that completes it.                               *)
(***************************************************************************)
EXTENDS Integers, Sequences, FiniteSets, TLC

VARIABLES
    inputBuffer,      \* MCPServer.inputBuffer: the characters not yet consumed
    suspended,        \* invocations of the 'data' callback waiting for the store
    stdout,           \* the response lines written so far, in order
    projects,         \* table projects: id -> row
    tasks,            \* table tasks: id -> row
    sqlite_sequence,  \* AUTOINCREMENT: the largest id ever given, per table
    total_changes,    \* statements that changed a row since the store was opened
    now,              \* the value of CURRENT_TIMESTAMP
    nextId,           \* the id the client gives its next request
    extracted,        \* history: the number of lines taken out of inputBuffer
    stream,           \* history: every character delivered on stdin, in order
    lines,            \* history: the newline-terminated lines of stream, trimmed
    seen,             \* history: line number -> the ids of the store when it was dispatched
    wrote,            \* history: numbers of the lines whose statements changed a row
    taskWrite,        \* history: line number -> when its statement wrote a task row, and
                      \* the project that owned the task
    pending,          \* MCPTestClient.pending: the ids that have an entry
    timers,           \* the ids whose setTimeout is armed: not fired, not cleared
    stdoutBuffer,     \* MCPTestClient.stdoutBuffer
    exitCode,         \* the code of the server's 'exit' event, Running before it
    issued,           \* history: the ids MCPTestClient.call has given, in order
    settled,          \* history: for call 1, 2, ..., what resolve and reject of its
                      \* promise were called with, in order
    decoded,          \* history: the ids of the messages the client parsed in the
                      \* last step, in order
    delivered,        \* history: the number of characters the client was given
    handle,           \* Database.db, the sqlite3 handle: "opening", "initializing"
                      \* (open, PRAGMAs and schema running), "ready" or "closed"
    shutdown          \* the signals whose handler is waiting for Database.close

vars == <<inputBuffer, suspended, stdout, projects, tasks, sqlite_sequence,
          total_changes, now, nextId, extracted, stream, lines, seen, wrote, taskWrite,
          pending, timers, stdoutBuffer, exitCode, issued, settled, decoded, delivered,
          handle, shutdown>>

\* the state of the server and its store, but for nextId
serverVars == <<inputBuffer, suspended, stdout, projects, tasks, sqlite_sequence,
                total_changes, now, extracted, stream, lines, seen, wrote, taskWrite,
                handle, shutdown>>

\* the state of the server process: its store handle and its signal handlers
processVars == <<handle, shutdown>>

\* the state of the test client, but for nextId
clientVars == <<pending, timers, stdoutBuffer, exitCode, issued, settled, decoded,
                delivered>>

----------------------------------------------------------------------------
(* Bounds of the model.                                                    *)

\* characters delivered on stdin in a run of the framing specification
MaxInput == 4
\* request lines delivered in a run of the store specification
MaxCalls == 2
\* largest value CURRENT_TIMESTAMP takes
MaxClock == 1
\* tasks of the project in a run of the summary specification
MaxTasks == 40

----------------------------------------------------------------------------
(* JSON values.  A text is a sequence of tokens; " " is a whitespace token. *)

Str(s) == [t |-> "string", v |-> s]
Undefined == [t |-> "undefined", v |-> <<>>]
JNull == [t |-> "null", v |-> <<>>]
NotAString == [t |-> "number", v |-> <<>>]

W(word) == Str(<<word>>)
Blank == Str(<<" ">>)
Empty == Str(<<>>)

\* String.prototype.trim on a token sequence
RECURSIVE TrimLeft(_)
TrimLeft(s) == IF s # <<>> /\ Head(s) = " " THEN TrimLeft(Tail(s)) ELSE s

RECURSIVE TrimRight(_)
TrimRight(s) ==
    IF s # <<>> /\ s[Len(s)] = " " THEN TrimRight(SubSeq(s, 1, Len(s) - 1)) ELSE s

trim(s) == TrimRight(TrimLeft(s))

\* JavaScript truthiness of a text-valued argument
Truthy(x) == x.t = "number" \/ (x.t = "string" /\ x.v # <<>>)

\* a default parameter value applies to undefined only
Default(x, d) == IF x = Undefined THEN d ELSE x

validStatuses == {W("pending"), W("in-progress"), W("developed"), W("tested"),
                  W("deployed"), W("blocked")}

validPriorities == {W("low"), W("medium"), W("high"), W("critical")}

\* the arguments object of a tools/call with every property absent; an id
\* argument is a number, 0 when the property is absent
NoArgs == [id |-> 0, project_id |-> 0, name |-> Undefined, client |-> Undefined,
           description |-> Undefined, priority |-> Undefined, status |-> Undefined,
           category |-> Undefined, assignee |-> Undefined, due_date |-> Undefined,
           notes |-> Undefined, unknown_field |-> Undefined]

----------------------------------------------------------------------------
(* Validation helpers of MCPServer: TRUE when the helper throws.           *)

validateStatus(status) == Truthy(status) /\ status \notin validStatuses

validatePriority(priority) == Truthy(priority) /\ priority \notin validPriorities

\* an absent id (0) is not a number; a negative one stands for every number
\* that is not a positive integer
validateId(id) == id <= 0

validateString(value, required) ==
    \/ required /\ (~Truthy(value) \/ value.t # "string" \/ trim(value.v) = <<>>)
    \/ ~required /\ value # Undefined /\ value # JNull /\ value.t # "string"

----------------------------------------------------------------------------
(* The store: schema.sql and the statements database.js issues.            *)

Store == [projects |-> projects, tasks |-> tasks, seq |-> sqlite_sequence,
          changes |-> total_changes]

\* the result of a statement: the store after it, an SQLITE_CONSTRAINT error
\* or not, this.lastID, this.changes, whether a row came back, the row
Outcome(S, err, lastID, changes, found, row) ==
    [S |-> S, err |-> err, lastID |-> lastID, changes |-> changes,
     found |-> found, row |-> row]

NoRow == [none |-> TRUE]

Restrict(f, D) == [k \in D |-> f[k]]

\* INSERT INTO projects (name, client, description, updated_at)
\* name TEXT NOT NULL; id INTEGER PRIMARY KEY AUTOINCREMENT
InsertProject(S, t, name, client, description) ==
    IF name = JNull
    THEN Outcome(S, TRUE, 0, 0, FALSE, NoRow)
    ELSE LET id == S.seq.projects + 1
             row == [name |-> name, client |-> client, description |-> description,
                     created_at |-> t, updated_at |-> t]
         IN Outcome([S EXCEPT !.projects = (id :> row) @@ S.projects,
                              !.seq.projects = id,
                              !.changes = @ + 1],
                    FALSE, id, 1, FALSE, NoRow)

\* SELECT * FROM projects WHERE id = ?
SelectProject(S, id) ==
    IF id \in DOMAIN S.projects
    THEN Outcome(S, FALSE, 0, 0, TRUE, S.projects[id])
    ELSE Outcome(S, FALSE, 0, 0, FALSE, NoRow)

\* a store whose foreign key has no ON DELETE CASCADE action
DeleteProjectNoCascade(S, id) ==
    IF id \in DOMAIN S.projects
    THEN Outcome([S EXCEPT !.projects = Restrict(@, DOMAIN @ \ {id}), !.changes = @ + 1],
                 FALSE, 0, 1, FALSE, NoRow)
    ELSE Outcome(S, FALSE, 0, 0, FALSE, NoRow)

\* DELETE FROM projects WHERE id = ?, with PRAGMA foreign_keys = ON and
\* FOREIGN KEY (project_id) REFERENCES projects(id) ON DELETE CASCADE
DeleteProject(S, id) ==
    IF id \in DOMAIN S.projects
    THEN LET kept == {k \in DOMAIN S.tasks : S.tasks[k].project_id # id}
         IN Outcome([S EXCEPT !.projects = Restrict(@, DOMAIN @ \ {id}),
                              !.tasks = Restrict(@, kept),
                              !.changes = @ + 1],
                    FALSE, 0, 1, FALSE, NoRow)
    ELSE Outcome(S, FALSE, 0, 0, FALSE, NoRow)

\* CHECK(col IN (...)): a CHECK fails when its expression is false, and
\* NULL IN (...) is NULL, which is not false
CheckIn(value, allowed) == value = JNull \/ value \in allowed

\* an INSERT into a tasks table without its FOREIGN KEY (or with PRAGMA
\* foreign_keys off)
InsertTaskNoForeignKey(S, t, project_id, description, priority, category, assignee, due_date) ==
    IF description = JNull \/ ~CheckIn(priority, validPriorities)
    THEN Outcome(S, TRUE, 0, 0, FALSE, NoRow)
    ELSE LET id == S.seq.tasks + 1
             row == [project_id |-> project_id, description |-> description,
                     priority |-> priority, status |-> W("pending"),
                     category |-> category, assignee |-> assignee,
                     due_date |-> due_date, notes |-> JNull,
                     created_at |-> t, updated_at |-> t]
         IN Outcome([S EXCEPT !.tasks = (id :> row) @@ S.tasks,
                              !.seq.tasks = id,
                              !.changes = @ + 1],
                    FALSE, id, 1, FALSE, NoRow)

\* INSERT INTO tasks (project_id, description, priority, category, assignee,
\* due_date, updated_at); status takes its DEFAULT 'pending', notes is NULL
InsertTask(S, t, project_id, description, priority, category, assignee, due_date) ==
    IF \/ description = JNull
       \/ ~CheckIn(priority, validPriorities)
       \/ project_id \notin DOMAIN S.projects
    THEN Outcome(S, TRUE, 0, 0, FALSE, NoRow)
    ELSE LET id == S.seq.tasks + 1
             row == [project_id |-> project_id, description |-> description,
                     priority |-> priority, status |-> W("pending"),
                     category |-> category, assignee |-> assignee,
                     due_date |-> due_date, notes |-> JNull,
                     created_at |-> t, updated_at |-> t]
         IN Outcome([S EXCEPT !.tasks = (id :> row) @@ S.tasks,
                              !.seq.tasks = id,
                              !.changes = @ + 1],
                    FALSE, id, 1, FALSE, NoRow)

\* UPDATE projects SET updated_at = CURRENT_TIMESTAMP WHERE id = ?
TouchProject(S, t, id) ==
    IF id \in DOMAIN S.projects
    THEN Outcome([S EXCEPT !.projects[id].updated_at = t, !.changes = @ + 1],
                 FALSE, 0, 1, FALSE, NoRow)
    ELSE Outcome(S, FALSE, 0, 0, FALSE, NoRow)

allowedFields == {"status", "notes", "priority", "category", "description",
                  "assignee", "due_date"}

\* the fields of an updates object that database.js puts in the SET clause
SetClause(updates) == {f \in allowedFields : f \in DOMAIN updates}

\* an UPDATE without its WHERE clause: every row of tasks is set
UpdateTaskRowNoWhere(S, t, id, updates) ==
    IF id \notin DOMAIN S.tasks
    THEN Outcome(S, FALSE, 0, 0, FALSE, NoRow)
    ELSE Outcome([S EXCEPT !.tasks = [k \in DOMAIN @ |->
                                        [f \in DOMAIN @[k] |->
                                            IF f \in SetClause(updates) THEN updates[f]
                                            ELSE IF f = "updated_at" THEN t
                                            ELSE @[k][f]]],
                           !.changes = @ + 1],
                 FALSE, 0, Cardinality(DOMAIN S.tasks), FALSE, NoRow)

\* UPDATE tasks SET <fields>, updated_at = CURRENT_TIMESTAMP WHERE id = ?
UpdateTaskRow(S, t, id, updates) ==
    IF id \notin DOMAIN S.tasks
    THEN Outcome(S, FALSE, 0, 0, FALSE, NoRow)
    ELSE LET old == S.tasks[id]
             new == [f \in DOMAIN old |->
                        IF f \in SetClause(updates) THEN updates[f]
                        ELSE IF f = "updated_at" THEN t
                        ELSE old[f]]
         IN IF \/ new.description = JNull
               \/ ~CheckIn(new.priority, validPriorities)
               \/ ~CheckIn(new.status, validStatuses)
            THEN Outcome(S, TRUE, 0, 0, FALSE, NoRow)
            ELSE Outcome([S EXCEPT !.tasks[id] = new, !.changes = @ + 1],
                         FALSE, 0, 1, FALSE, NoRow)

\* SELECT project_id FROM tasks WHERE id = ?
SelectTaskProject(S, id) ==
    IF id \in DOMAIN S.tasks
    THEN Outcome(S, FALSE, 0, 0, TRUE, [project_id |-> S.tasks[id].project_id])
    ELSE Outcome(S, FALSE, 0, 0, FALSE, NoRow)

\* DELETE FROM tasks WHERE id = ?
DeleteTaskRow(S, id) ==
    IF id \in DOMAIN S.tasks
    THEN Outcome([S EXCEPT !.tasks = Restrict(@, DOMAIN @ \ {id}), !.changes = @ + 1],
                 FALSE, 0, 1, FALSE, NoRow)
    ELSE Outcome(S, FALSE, 0, 0, FALSE, NoRow)

\* Database.getTasks: SELECT * FROM tasks WHERE 1=1 [AND col = ?]...; a filter is
\* applied when its value is truthy.  The rows are given as the set of their ids.
SelectTasks(S, filters) ==
    LET match(k) ==
            /\ filters.project_id # 0 => S.tasks[k].project_id = filters.project_id
            /\ Truthy(filters.status) => S.tasks[k].status = filters.status
            /\ Truthy(filters.priority) => S.tasks[k].priority = filters.priority
            /\ Truthy(filters.category) => S.tasks[k].category = filters.category
            /\ Truthy(filters.assignee) => S.tasks[k].assignee = filters.assignee
    IN Outcome(S, FALSE, 0, 0, TRUE, {k \in DOMAIN S.tasks : match(k)})

\* Database.getProjects: the projects, optionally of one client, with their
\* task counts.  The rows are given as id -> total_tasks.
SelectProjects(S, client) ==
    LET ids == {p \in DOMAIN S.projects : Truthy(client) => S.projects[p].client = client}
    IN Outcome(S, FALSE, 0, 0, TRUE,
               [p \in ids |-> Cardinality({k \in DOMAIN S.tasks : S.tasks[k].project_id = p})])

\* JavaScript numbers are IEEE 754 doubles, with a significand of 53 bits.  A
\* positive double is given by three limbs of its significand, of 18 bits
\* each but the first, and a scale z: its value is
\* (l1 * 2^36 + l2 * 2^18 + l3) * 2^(-52 - z)
Precision == 53
Limb == 18
Base == 2^Limb

Double(l1, l2, l3, z) == [l1 |-> l1, l2 |-> l2, l3 |-> l3, z |-> z]

\* the double whose significand is that of x plus inc units of its last limb
Carry(x, inc) ==
    LET t3 == x.l3 + inc
        t2 == x.l2 + t3 \div Base
    IN Double(x.l1 + t2 \div Base, t2 % Base, t3 % Base, x.z)

\* round to nearest, ties to even: whether a significand with last bit lsb
\* goes up, given the first bit dropped and whether any lower bit is set
RoundsUp(lsb, guard, sticky) == guard = 1 /\ (sticky \/ lsb = 1)

\* n / d in double arithmetic, for integers 0 < n <= d: the scale z puts the
\* quotient in [1, 2), long division by limbs gives its first 53 bits, and the
\* next bit and the remainder decide the rounding
Divide(n, d) ==
    LET z == CHOOSE k \in 0..Limb : n * 2^k >= d /\ (k = 0 \/ n * 2^(k - 1) < d)
        r0 == n * 2^z
        first == Precision - 1 - 2 * Limb
        l1 == (r0 * 2^first) \div d
        r1 == (r0 * 2^first) % d
        l2 == (r1 * Base) \div d
        r2 == (r1 * Base) % d
        l3 == (r2 * Base) \div d
        r3 == (r2 * Base) % d
        up == RoundsUp(l3 % 2, (2 * r3) \div d, (2 * r3) % d # 0)
    IN Carry(Double(l1, l2, l3, z), IF up THEN 1 ELSE 0)

\* x * 100 in double arithmetic, for x = Divide(n, d): the exact product has
\* 59 or 60 bits, of which the last k = 6 or 7 are rounded away
Times100(x) ==
    LET t3 == x.l3 * 100
        t2 == x.l2 * 100 + t3 \div Base
        l1 == x.l1 * 100 + t2 \div Base
        l2 == t2 % Base
        l3 == t3 % Base
        k == IF l1 >= 2^(Precision + 6 - 2 * Limb) THEN 7 ELSE 6
        up == RoundsUp((l3 \div 2^k) % 2, (l3 \div 2^(k - 1)) % 2, l3 % 2^(k - 1) # 0)
    IN Carry(Double(l1, l2, (l3 \div 2^k) * 2^k, x.z), IF up THEN 2^k ELSE 0)

\* Math.round(x) for x = Times100(Divide(n, d)): the largest integer that is
\* at most x + 1/2, from the integer part of 2 x
MathRound(x) ==
    LET twice == x.l1 \div 2^(Precision - 2 - 2 * Limb + x.z)
    IN (twice + 1) \div 2

\* Math.round((n / d) * 100) for integers 0 <= n <= d, d > 0
RoundPercent(n, d) == IF n = 0 THEN 0 ELSE MathRound(Times100(Divide(n, d)))

\* Database.getProjectSummary: the COUNT(...) row and the two percentages
SelectSummary(S, projectId) ==
    LET of == {k \in DOMAIN S.tasks : S.tasks[k].project_id = projectId}
        count(col, val) == Cardinality({k \in of : S.tasks[k][col] = val})
        total == Cardinality(of)
        deployed == count("status", W("deployed"))
        moving == count("status", W("developed")) + count("status", W("tested")) + deployed
    IN Outcome(S, FALSE, 0, 0, TRUE,
               [total |-> total,
                pending |-> count("status", W("pending")),
                in_progress |-> count("status", W("in-progress")),
                developed |-> count("status", W("developed")),
                tested |-> count("status", W("tested")),
                deployed |-> deployed,
                blocked |-> count("status", W("blocked")),
                critical |-> count("priority", W("critical")),
                high |-> count("priority", W("high")),
                medium |-> count("priority", W("medium")),
                low |-> count("priority", W("low")),
                completion_percentage |-> IF total > 0 THEN RoundPercent(deployed, total) ELSE 0,
                progress_percentage |-> IF total > 0 THEN RoundPercent(moving, total) ELSE 0])

----------------------------------------------------------------------------
(* Messages and response envelopes.                                        *)

\* the id of an envelope written by sendError(message) with its default id = null
NullId == 0

Message(id, method, name, arguments) ==
    [id |-> id, method |-> method, name |-> name, arguments |-> arguments]

NoResult == [none |-> TRUE]

\* a response line; line is history: the number of the input line it answers
ResultEnvelope(id, result, line) ==
    [id |-> id, error |-> "", result |-> result, line |-> line]

ErrorEnvelope(id, message, line) ==
    [id |-> id, error |-> message, result |-> NoResult, line |-> line]

\* what a piece of an async function does next: wait for a statement,
\* return a value, or throw
Await(at, lastID, changes, pid) ==
    [kind |-> "await", at |-> at, lastID |-> lastID, changes |-> changes, pid |-> pid]

Return(value) == [kind |-> "return", value |-> value]

Throw(message) == [kind |-> "throw", message |-> message]

----------------------------------------------------------------------------
(* The tool implementations of MCPServer with the Database methods they    *)
(* await.  For each tool: the synchronous part up to the first statement,  *)
(* the statement a suspended call waits for, and what the call does with   *)
(* the statement's outcome.  h is the suspended call: its message and the  *)
(* locals it keeps across awaits.                                          *)

\* the message of the first validation that throws, "" when none does
RECURSIVE FirstError(_)
FirstError(checks) ==
    IF checks = <<>> THEN ""
    ELSE IF Head(checks)[1] THEN Head(checks)[2]
    ELSE FirstError(Tail(checks))

Required == "is required and must be a non-empty string"
MustBeString == "must be a string"
InvalidId == "Invalid ID: must be a positive integer"
InvalidStatus == "Invalid status"
InvalidPriority == "Invalid priority"
NotFound == "not found"
NoValidFields == "No valid fields to update"
Constraint == "SQLITE_CONSTRAINT"
UnknownTool == "Unknown tool"
UnknownMethod == "Unknown method"
SyntaxError == "Unexpected token"

\* a statement rejected by the store rejects the promise of Database.run
Rejected(r) == Throw(Constraint)

\* MCPServer.createProject and Database.createProject
createProject(args) ==
    LET e == FirstError(<< <<validateString(args.name, TRUE), Required>>,
                           <<validateString(args.client, FALSE), MustBeString>>,
                           <<validateString(args.description, FALSE), MustBeString>> >>)
    IN IF e # "" THEN Throw(e) ELSE Await("createProject.run", 0, 0, 0)

\* a createProject that binds the statement's client to the description
createProjectRunShifted(h, S, t) ==
    LET args == h.msg.arguments
    IN InsertProject(S, t, args.name, Default(args.description, JNull),
                     Default(args.description, JNull))

createProjectRun(h, S, t) ==
    LET args == h.msg.arguments
    IN InsertProject(S, t, args.name, Default(args.client, JNull),
                     Default(args.description, JNull))

createProjectThen(h, r) ==
    IF r.err THEN Rejected(r)
    ELSE Return([success |-> TRUE, project_id |-> r.lastID])

\* MCPServer.listProjects and Database.getProjects
listProjects(args) ==
    IF validateString(args.client, FALSE) THEN Throw(MustBeString)
    ELSE Await("getProjects.all", 0, 0, 0)

listProjectsRun(h, S, t) == SelectProjects(S, Default(h.msg.arguments.client, JNull))

listProjectsThen(h, r) == Return([projects |-> r.row])

\* MCPServer.addTask and Database.addTask
addTask(args) ==
    LET e == FirstError(<< <<validateId(args.project_id), InvalidId>>,
                           <<validateString(args.description, TRUE), Required>>,
                           <<validatePriority(Default(args.priority, W("medium"))), InvalidPriority>>,
                           <<validateString(args.category, FALSE), MustBeString>>,
                           <<validateString(args.assignee, FALSE), MustBeString>>,
                           <<validateString(args.due_date, FALSE), MustBeString>> >>)
    IN IF e # "" THEN Throw(e) ELSE Await("addTask.getProject", 0, 0, 0)

addTaskRun(h, S, t) ==
    LET args == h.msg.arguments
    IN CASE h.at = "addTask.getProject" -> SelectProject(S, args.project_id)
         [] h.at = "addTask.insert" ->
                InsertTask(S, t, args.project_id, args.description,
                           Default(args.priority, W("medium")),
                           Default(args.category, JNull),
                           Default(args.assignee, JNull),
                           Default(args.due_date, JNull))
         [] h.at = "addTask.touch" -> TouchProject(S, t, args.project_id)

\* an addTask without the check that the project exists
addTaskThenUnchecked(h, r) ==
    CASE h.at = "addTask.getProject" -> Await("addTask.insert", 0, 0, 0)
      [] h.at = "addTask.insert" ->
            IF r.err THEN Rejected(r) ELSE Await("addTask.touch", r.lastID, 0, 0)
      [] h.at = "addTask.touch" ->
            Return([success |-> TRUE, task_id |-> h.lastID])

addTaskThen(h, r) ==
    CASE h.at = "addTask.getProject" ->
            IF ~r.found THEN Throw(NotFound) ELSE Await("addTask.insert", 0, 0, 0)
      [] h.at = "addTask.insert" ->
            IF r.err THEN Rejected(r) ELSE Await("addTask.touch", r.lastID, 0, 0)
      [] h.at = "addTask.touch" ->
            Return([success |-> TRUE, task_id |-> h.lastID])

\* the updates object MCPServer.updateTask builds: the properties that are
\* not undefined
Updates(args) ==
    Restrict(args, {f \in allowedFields : args[f] # Undefined})

\* an updateTask that sends an empty SET clause to the store
updateTaskAcceptsEmpty(args) ==
    IF validateId(args.id) THEN Throw(InvalidId) ELSE Await("updateTask.update", 0, 0, 0)

\* MCPServer.updateTask and Database.updateTask
updateTask(args) ==
    LET e == FirstError(<< <<validateId(args.id), InvalidId>>,
                           <<validateStatus(args.status), InvalidStatus>>,
                           <<validatePriority(args.priority), InvalidPriority>>,
                           <<validateString(args.notes, FALSE), MustBeString>>,
                           <<validateString(args.category, FALSE), MustBeString>>,
                           <<validateString(args.description, FALSE), MustBeString>>,
                           <<validateString(args.assignee, FALSE), MustBeString>>,
                           <<validateString(args.due_date, FALSE), MustBeString>> >>)
    IN IF e # "" THEN Throw(e)
       ELSE IF SetClause(Updates(args)) = {} THEN Throw(NoValidFields)
       ELSE Await("updateTask.update", 0, 0, 0)

updateTaskRun(h, S, t) ==
    LET args == h.msg.arguments
    IN CASE h.at = "updateTask.update" -> UpdateTaskRow(S, t, args.id, Updates(args))
         [] h.at = "updateTask.get" -> SelectTaskProject(S, args.id)
         [] h.at = "updateTask.touch" -> TouchProject(S, t, h.pid)

updateTaskDone(changes) ==
    IF changes > 0 THEN Return([success |-> TRUE]) ELSE Throw(NotFound)

updateTaskThen(h, r) ==
    CASE h.at = "updateTask.update" ->
            IF r.err THEN Rejected(r) ELSE Await("updateTask.get", 0, r.changes, 0)
      [] h.at = "updateTask.get" ->
            IF r.found THEN Await("updateTask.touch", 0, h.changes, r.row.project_id)
            ELSE updateTaskDone(h.changes)
      [] h.at = "updateTask.touch" -> updateTaskDone(h.changes)

\* MCPServer.getTasks and Database.getTasks
getTasks(args) ==
    LET e == FirstError(<< <<args.project_id # 0 /\ validateId(args.project_id), InvalidId>>,
                           <<validateStatus(args.status), InvalidStatus>>,
                           <<validatePriority(args.priority), InvalidPriority>>,
                           <<validateString(args.category, FALSE), MustBeString>>,
                           <<validateString(args.assignee, FALSE), MustBeString>> >>)
    IN IF e # "" THEN Throw(e) ELSE Await("getTasks.all", 0, 0, 0)

\* a getTasks that gives the status filter 'pending' when none is asked for
getTasksRunPending(h, S, t) ==
    SelectTasks(S, [h.msg.arguments EXCEPT !.status = Default(@, W("pending"))])

getTasksRun(h, S, t) == SelectTasks(S, h.msg.arguments)

getTasksThen(h, r) == Return([tasks |-> r.row])

\* MCPServer.getProjectSummary and Database.getProjectSummary
getProjectSummary(args) ==
    IF validateId(args.project_id) THEN Throw(InvalidId)
    ELSE Await("getProjectSummary.getProject", 0, 0, 0)

\* a summary that gives the COUNT statement args.id, not args.project_id
getProjectSummaryRunById(h, S, t) ==
    CASE h.at = "getProjectSummary.getProject" -> SelectProject(S, h.msg.arguments.project_id)
      [] h.at = "getProjectSummary.get" -> SelectSummary(S, h.msg.arguments.id)

getProjectSummaryRun(h, S, t) ==
    CASE h.at = "getProjectSummary.getProject" -> SelectProject(S, h.msg.arguments.project_id)
      [] h.at = "getProjectSummary.get" -> SelectSummary(S, h.msg.arguments.project_id)

getProjectSummaryThen(h, r) ==
    CASE h.at = "getProjectSummary.getProject" ->
            IF ~r.found THEN Throw(NotFound) ELSE Await("getProjectSummary.get", 0, 0, 0)
      [] h.at = "getProjectSummary.get" ->
            Return([project_id |-> h.msg.arguments.project_id, summary |-> r.row])

\* MCPServer.deleteTask and Database.deleteTask
deleteTask(args) ==
    IF validateId(args.id) THEN Throw(InvalidId) ELSE Await("deleteTask.get", 0, 0, 0)

deleteTaskRun(h, S, t) ==
    CASE h.at = "deleteTask.get" -> SelectTaskProject(S, h.msg.arguments.id)
      [] h.at = "deleteTask.delete" -> DeleteTaskRow(S, h.msg.arguments.id)
      [] h.at = "deleteTask.touch" -> TouchProject(S, t, h.pid)

\* a deleteTask that does not look at result.changes
deleteTaskDoneAlways(changes) == Return([success |-> TRUE])

deleteTaskDone(changes) ==
    IF changes > 0 THEN Return([success |-> TRUE]) ELSE Throw(NotFound)

\* pid is task.project_id, 0 when the SELECT gave no row
deleteTaskThen(h, r) ==
    CASE h.at = "deleteTask.get" ->
            Await("deleteTask.delete", 0, 0, IF r.found THEN r.row.project_id ELSE 0)
      [] h.at = "deleteTask.delete" ->
            IF r.changes > 0 /\ h.pid # 0 THEN Await("deleteTask.touch", 0, r.changes, h.pid)
            ELSE deleteTaskDone(r.changes)
      [] h.at = "deleteTask.touch" -> deleteTaskDone(h.changes)

\* MCPServer.deleteProject and Database.deleteProject
deleteProject(args) ==
    IF validateId(args.id) THEN Throw(InvalidId)
    ELSE Await("deleteProject.getProject", 0, 0, 0)

deleteProjectRun(h, S, t) ==
    CASE h.at = "deleteProject.getProject" -> SelectProject(S, h.msg.arguments.id)
      [] h.at = "deleteProject.delete" -> DeleteProject(S, h.msg.arguments.id)

deleteProjectThen(h, r) ==
    CASE h.at = "deleteProject.getProject" ->
            IF ~r.found THEN Throw(NotFound) ELSE Await("deleteProject.delete", 0, 0, 0)
      [] h.at = "deleteProject.delete" -> Return([success |-> TRUE])

----------------------------------------------------------------------------
(* Routing: handleToolCall and handleMessage.                              *)

\* the switch of handleToolCall: the synchronous part of the named tool
ToolStart(name, args) ==
    CASE name = "create_project" -> createProject(args)
      [] name = "list_projects" -> listProjects(args)
      [] name = "add_task" -> addTask(args)
      [] name = "update_task" -> updateTask(args)
      [] name = "get_tasks" -> getTasks(args)
      [] name = "get_project_summary" -> getProjectSummary(args)
      [] name = "delete_task" -> deleteTask(args)
      [] name = "delete_project" -> deleteProject(args)
      [] OTHER -> Throw(UnknownTool)

\* the statement the suspended call h waits for, run on store S at time t
ToolRun(h, S, t) ==
    CASE h.msg.name = "create_project" -> createProjectRun(h, S, t)
      [] h.msg.name = "list_projects" -> listProjectsRun(h, S, t)
      [] h.msg.name = "add_task" -> addTaskRun(h, S, t)
      [] h.msg.name = "update_task" -> updateTaskRun(h, S, t)
      [] h.msg.name = "get_tasks" -> getTasksRun(h, S, t)
      [] h.msg.name = "get_project_summary" -> getProjectSummaryRun(h, S, t)
      [] h.msg.name = "delete_task" -> deleteTaskRun(h, S, t)
      [] h.msg.name = "delete_project" -> deleteProjectRun(h, S, t)

\* what the suspended call h does with the outcome r of its statement
ToolThen(h, r) ==
    CASE h.msg.name = "create_project" -> createProjectThen(h, r)
      [] h.msg.name = "list_projects" -> listProjectsThen(h, r)
      [] h.msg.name = "add_task" -> addTaskThen(h, r)
      [] h.msg.name = "update_task" -> updateTaskThen(h, r)
      [] h.msg.name = "get_tasks" -> getTasksThen(h, r)
      [] h.msg.name = "get_project_summary" -> getProjectSummaryThen(h, r)
      [] h.msg.name = "delete_task" -> deleteTaskThen(h, r)
      [] h.msg.name = "delete_project" -> deleteProjectThen(h, r)

\* the try/catch of handleToolCall: a tool's value is wrapped in a result
\* envelope and what it throws in an error envelope, both with the request's id
handleToolCall(id, o, line) ==
    CASE o.kind = "await" -> o
      [] o.kind = "return" -> Return(ResultEnvelope(id, o.value, line))
      [] o.kind = "throw" -> Return(ErrorEnvelope(id, o.message, line))

toolNames == {"create_project", "list_projects", "add_task", "update_task",
              "get_tasks", "get_project_summary", "delete_task", "delete_project"}

handleInitialize(id, line) ==
    ResultEnvelope(id, [serverInfo |-> "mcp-project-tracker"], line)

handleToolsList(id, line) == ResultEnvelope(id, [tools |-> toolNames], line)

handleMessage(message, line) ==
    CASE message.method = "initialize" -> Return(handleInitialize(message.id, line))
      [] message.method = "tools/list" -> Return(handleToolsList(message.id, line))
      [] message.method = "tools/call" ->
            handleToolCall(message.id, ToolStart(message.name, message.arguments), line)
      [] OTHER -> Throw(UnknownMethod)

----------------------------------------------------------------------------
(* Framing: the 'data' callback of setupMessageHandling.                   *)

NoMsg == Message(0, "", "", NoArgs)

\* the characters of the input: a newline, a space, a complete JSON document
\* (one request object), or text that is not JSON
NL == [c |-> "\n", msg |-> NoMsg]
SP == [c |-> " ", msg |-> NoMsg]
Junk == [c |-> "junk", msg |-> NoMsg]
Json(message) == [c |-> "json", msg |-> message]

RECURSIVE indexOf(_, _)
\* String.prototype.indexOf, 1-based; 0 when ch does not occur
indexOf(s, ch) ==
    IF s = <<>> THEN 0
    ELSE IF Head(s) = ch THEN 1
    ELSE LET i == indexOf(Tail(s), ch) IN IF i = 0 THEN 0 ELSE i + 1

RECURSIVE trimStart(_)
trimStart(s) == IF s # <<>> /\ Head(s) = SP THEN trimStart(Tail(s)) ELSE s

RECURSIVE trimEnd(_)
trimEnd(s) ==
    IF s # <<>> /\ s[Len(s)] = SP THEN trimEnd(SubSeq(s, 1, Len(s) - 1)) ELSE s

\* JSON.parse accepts a line that is exactly one JSON document
ParseFails(line) == ~(Len(line) = 1 /\ line[1].c = "json")

\* a suspended invocation of the callback: the message being handled, the
\* await it is at and the locals of the tool
Suspended(message, line, o) ==
    [msg |-> message, line |-> line, at |-> o.at, lastID |-> o.lastID,
     changes |-> o.changes, pid |-> o.pid]

\* what an invocation has done when it stops running: the buffer and the
\* output it leaves, the number of lines taken so far, and the call it is
\* suspended in, if any
Stopped(buf, out, n, calls) == [buf |-> buf, out |-> out, n |-> n, calls |-> calls]

\* sendResponse: the envelope is written as one line
sendResponse(out, response) == Append(out, response)

\* a catch that swallows the error and writes nothing
sendErrorSwallowed(out, message, line) == out

\* sendError(message, null), as the catch of the callback calls it
sendError(out, message, line) == Append(out, ErrorEnvelope(NullId, message, line))

RECURSIVE ReadLoop(_, _, _)
\* the while loop of the callback, run from the buffer buf with output out
\* after n lines have been taken, to its next await, its end or its catch
ReadLoop(buf, out, n) ==
    LET newlineIndex == indexOf(buf, NL)
    IN IF newlineIndex = 0 THEN Stopped(buf, out, n, {})
       ELSE LET line == trimEnd(trimStart(SubSeq(buf, 1, newlineIndex - 1)))
                rest == SubSeq(buf, newlineIndex + 1, Len(buf))
            IN IF line = <<>> THEN ReadLoop(rest, out, n + 1)
               ELSE IF ParseFails(line)
               THEN Stopped(rest, sendError(out, SyntaxError, n + 1), n + 1, {})
               ELSE LET o == handleMessage(line[1].msg, n + 1)
                    IN CASE o.kind = "throw" ->
                               Stopped(rest, sendError(out, o.message, n + 1), n + 1, {})
                         [] o.kind = "return" -> ReadLoop(rest, sendResponse(out, o.value), n + 1)
                         [] o.kind = "await" ->
                               Stopped(rest, out, n + 1, {Suspended(line[1].msg, n + 1, o)})

----------------------------------------------------------------------------
(* The state machine.                                                      *)

RECURSIVE SplitLines(_)
\* the newline-terminated lines of a character sequence, each trimmed
SplitLines(s) ==
    LET i == indexOf(s, NL)
    IN IF i = 0 THEN <<>>
       ELSE <<trimEnd(trimStart(SubSeq(s, 1, i - 1)))>> \o SplitLines(SubSeq(s, i + 1, Len(s)))

Snapshot(S) == [projects |-> DOMAIN S.projects, tasks |-> DOMAIN S.tasks, seq |-> S.seq]

\* the history of dispatches after a run of the loop took the lines up to n
Seen(n, S) == [k \in 1..n |-> IF k <= extracted THEN seen[k] ELSE Snapshot(S)]

NoProjects == [k \in {} |-> NoRow]
NoTasks == [k \in {} |-> NoRow]

\* the store file persists between runs: a run may start on an empty store,
\* on one that holds a project, or on one that holds a project with a task
OneProject == (1 :> [name |-> W("a"), client |-> JNull, description |-> JNull,
                     created_at |-> 0, updated_at |-> 0])
OneTask == (1 :> [project_id |-> 1, description |-> W("a"), priority |-> W("medium"),
                  status |-> W("pending"), category |-> JNull, assignee |-> JNull,
                  due_date |-> JNull, notes |-> JNull, created_at |-> 0, updated_at |-> 0])

InitStore ==
    \/ /\ projects = NoProjects
       /\ tasks = NoTasks
       /\ sqlite_sequence = [projects |-> 0, tasks |-> 0]
    \/ /\ projects = OneProject
       /\ tasks = NoTasks
       /\ sqlite_sequence = [projects |-> 1, tasks |-> 0]
    \/ /\ projects = OneProject
       /\ tasks = OneTask
       /\ sqlite_sequence = [projects |-> 1, tasks |-> 1]

NoWrites == [k \in {} |-> NoRow]

\* the code of a server process that has not exited
Running == -1

\* MCPTestClient.constructor, before any call
InitClient ==
    /\ pending = {}
    /\ timers = {}
    /\ stdoutBuffer = <<>>
    /\ exitCode = Running
    /\ issued = <<>>
    /\ settled = <<>>
    /\ decoded = <<>>
    /\ delivered = 0

\* the statements that write a row of tasks
TaskStatements == {"addTask.insert", "updateTask.update", "deleteTask.delete"}

\* the project_id of the task row the statement of h writes on store S
Owner(h, S) ==
    IF h.at = "addTask.insert" THEN h.msg.arguments.project_id
    ELSE S.tasks[h.msg.arguments.id].project_id

\* the state when the module has been evaluated: server = new MCPServer()
InitProcess ==
    /\ InitStore
    /\ total_changes = 0
    /\ now = 0
    /\ inputBuffer = <<>>
    /\ suspended = {}
    /\ stdout = <<>>
    /\ nextId = 1
    /\ extracted = 0
    /\ stream = <<>>
    /\ lines = <<>>
    /\ seen = <<>>
    /\ wrote = {}
    /\ taskWrite = NoWrites
    /\ InitClient
    /\ shutdown = <<>>

\* the server after its startup: db.ready has resolved and
\* setupMessageHandling has run
Init == InitProcess /\ handle = "ready"

\* the client numbers the requests of a chunk from id on
RECURSIVE Stamp(_, _)
Stamp(shape, id) ==
    IF shape = <<>> THEN <<>>
    ELSE IF Head(shape).c = "json"
    THEN <<Json([Head(shape).msg EXCEPT !.id = id])>> \o Stamp(Tail(shape), id + 1)
    ELSE <<Head(shape)>> \o Stamp(Tail(shape), id)

Requests(shape) == Cardinality({i \in 1..Len(shape) : shape[i].c = "json"})

\* stdin emits 'data' with a chunk: the callback appends it to the buffer and
\* runs its loop
StdinData(shape) ==
    LET chunk == Stamp(shape, nextId)
        l == ReadLoop(inputBuffer \o chunk, stdout, extracted)
    IN /\ inputBuffer' = l.buf
       /\ stdout' = l.out
       /\ extracted' = l.n
       /\ suspended' = suspended \cup l.calls
       /\ seen' = Seen(l.n, Store)
       /\ stream' = stream \o chunk
       /\ lines' = SplitLines(stream \o chunk)
       /\ nextId' = nextId + Requests(shape)
       /\ UNCHANGED <<projects, tasks, sqlite_sequence, total_changes, now, wrote,
                      taskWrite>>
       /\ UNCHANGED clientVars
       /\ UNCHANGED processVars

\* the statement a suspended call waits for completes: it runs on the store,
\* and the call goes on to its next await or writes its response, after which
\* the loop of that invocation goes on with the buffer as it is now
StoreCallback ==
    \E h \in suspended :
        LET r == ToolRun(h, Store, now)
            o == handleToolCall(h.msg.id, ToolThen(h, r), h.line)
            l == IF o.kind = "await"
                 THEN Stopped(inputBuffer, stdout, extracted, {Suspended(h.msg, h.line, o)})
                 ELSE ReadLoop(inputBuffer, sendResponse(stdout, o.value), extracted)
        IN /\ projects' = r.S.projects
           /\ tasks' = r.S.tasks
           /\ sqlite_sequence' = r.S.seq
           /\ total_changes' = r.S.changes
           /\ wrote' = IF r.S.changes # total_changes THEN wrote \cup {h.line} ELSE wrote
           /\ taskWrite' = IF r.changes > 0 /\ h.at \in TaskStatements
                           THEN (h.line :> [at |-> now, project_id |-> Owner(h, Store)])
                                    @@ taskWrite
                           ELSE taskWrite
           /\ inputBuffer' = l.buf
           /\ stdout' = l.out
           /\ extracted' = l.n
           /\ suspended' = (suspended \ {h}) \cup l.calls
           /\ seen' = Seen(l.n, r.S)
           /\ UNCHANGED <<now, nextId, stream, lines>>
           /\ UNCHANGED clientVars
           /\ UNCHANGED processVars

\* a second passes
Tick ==
    /\ now < MaxClock
    /\ now' = now + 1
    /\ UNCHANGED <<inputBuffer, suspended, stdout, projects, tasks, sqlite_sequence,
                   total_changes, nextId, extracted, stream, lines, seen, wrote,
                   taskWrite>>
    /\ UNCHANGED clientVars
    /\ UNCHANGED processVars

Call(name, args) == Json(Message(0, "tools/call", name, args @@ NoArgs))

\* the characters of the framing specification
FramingAlphabet ==
    {NL, SP, Junk,
     Json(Message(0, "initialize", "", NoArgs)),
     Json(Message(0, "tools/list", "", NoArgs)),
     Json(Message(0, "ping", "", NoArgs)),
     Call("drop_tables", [id |-> 1]),
     Call("create_project", [name |-> W("a")]),
     Call("delete_project", [id |-> 1])}

FramingChunks ==
    UNION {[1..n -> FramingAlphabet] : n \in 1..(MaxInput - Len(stream))}

Next ==
    \/ \E shape \in FramingChunks : StdinData(shape)
    \/ StoreCallback

Spec == Init /\ [][Next]_vars

\* the requests of the store specification, each written as one chunk, the
\* way a client writes one line per call
StoreAlphabet ==
    {Call("create_project", [name |-> W("a")]),
     Call("add_task", [project_id |-> 1, description |-> W("a")]),
     Call("update_task", [id |-> 1]),
     Call("update_task", [id |-> 2, unknown_field |-> W("a")]),
     Call("update_task", [id |-> 1, status |-> W("deployed")]),
     Call("get_tasks", [project_id |-> 1]),
     Call("get_project_summary", [project_id |-> 1]),
     Call("delete_task", [id |-> 1]),
     Call("delete_project", [id |-> 1])}

StoreChunks == IF nextId <= MaxCalls THEN {<<c, NL>> : c \in StoreAlphabet} ELSE {}

\* likewise for the requests of another alphabet
LineChunks(alphabet) == IF nextId <= MaxCalls THEN {<<c, NL>> : c \in alphabet} ELSE {}

NextStore ==
    \/ \E shape \in StoreChunks : StdinData(shape)
    \/ StoreCallback
    \/ Tick

SpecStore == Init /\ [][NextStore]_vars

----------------------------------------------------------------------------
(* The field specification: requests that give priority, status, name and  *)
(* description the values a JSON client can send for them.                 *)

\* one request line per chunk: null, out-of-set, empty and blank values
FieldAlphabet ==
    {Call("create_project", [name |-> Blank]),
     Call("add_task", [project_id |-> 1, description |-> W("a"), priority |-> JNull]),
     Call("add_task", [project_id |-> 1, description |-> W("a"), priority |-> W("urgent")]),
     Call("add_task", [project_id |-> 1, description |-> Empty]),
     Call("update_task", [id |-> 1, status |-> JNull]),
     Call("update_task", [id |-> 1, status |-> W("done")]),
     Call("update_task", [id |-> 1, priority |-> Empty]),
     Call("update_task", [id |-> 1, description |-> Blank]),
     Call("update_task", [id |-> 1, description |-> JNull])}

NextFields ==
    \/ \E shape \in LineChunks(FieldAlphabet) : StdinData(shape)
    \/ StoreCallback

SpecFields == Init /\ [][NextFields]_vars

----------------------------------------------------------------------------
(* The update specification: update_task with allowed and unknown          *)
(* arguments, next to the calls that give the store other rows.            *)

UpdateAlphabet ==
    {Call("create_project", [name |-> W("a")]),
     Call("add_task", [project_id |-> 1, description |-> W("a")]),
     Call("update_task", [id |-> 1, status |-> W("deployed"), unknown_field |-> W("a")]),
     Call("update_task", [id |-> 1, notes |-> W("a"), priority |-> W("high")]),
     Call("delete_task", [id |-> 1])}

NextUpdate ==
    \/ \E shape \in LineChunks(UpdateAlphabet) : StdinData(shape)
    \/ StoreCallback
    \/ Tick

SpecUpdate == Init /\ [][NextUpdate]_vars

----------------------------------------------------------------------------
(* The summary specification: get_project_summary on a store whose project *)
(* has any number of tasks up to MaxTasks, of which any number are         *)
(* deployed and any number developed or tested.                            *)

\* the tasks of project 1: the first deployed ones are deployed, the ones up
\* to moving are developed and tested in turn, the others are pending
SummaryTasks(total, deployed, moving) ==
    [k \in 1..total |->
        [OneTask[1] EXCEPT !.status = IF k <= deployed THEN W("deployed")
                                      ELSE IF k > moving THEN W("pending")
                                      ELSE IF k % 2 = 0 THEN W("developed")
                                      ELSE W("tested")]]

InitSummary ==
    /\ \E total \in 0..MaxTasks : \E deployed \in 0..total : \E moving \in deployed..total :
          /\ tasks = SummaryTasks(total, deployed, moving)
          /\ sqlite_sequence = [projects |-> 1, tasks |-> total]
    /\ projects = OneProject
    /\ total_changes = 0
    /\ now = 0
    /\ inputBuffer = <<>>
    /\ suspended = {}
    /\ stdout = <<>>
    /\ nextId = 1
    /\ extracted = 0
    /\ stream = <<>>
    /\ lines = <<>>
    /\ seen = <<>>
    /\ wrote = {}
    /\ taskWrite = NoWrites
    /\ InitClient
    /\ shutdown = <<>>
    /\ handle = "ready"

SummaryChunks ==
    IF stream = <<>> THEN {<<Call("get_project_summary", [project_id |-> 1]), NL>>} ELSE {}

NextSummary ==
    \/ \E shape \in SummaryChunks : StdinData(shape)
    \/ StoreCallback

SpecSummary == InitSummary /\ [][NextSummary]_vars

----------------------------------------------------------------------------
(* The read-back specification: calls that create rows, change them and    *)
(* delete them, next to the calls that read them back.                     *)

\* request lines delivered in a run of the read-back specification
MaxRequests == 3

ReadAlphabet ==
    {Call("create_project", [name |-> W("b"), client |-> W("c")]),
     Call("add_task", [project_id |-> 1, description |-> W("a")]),
     Call("update_task", [id |-> 1, status |-> W("deployed")]),
     Call("get_tasks", [project_id |-> 1]),
     Call("delete_task", [id |-> 1]),
     Call("delete_project", [id |-> 1])}

\* one request line per chunk, each request of the alphabet once at most
NextRead ==
    \/ \E c \in ReadAlphabet :
          /\ nextId <= MaxRequests
          /\ \A k \in DOMAIN lines : [lines[k][1].msg EXCEPT !.id = 0] # c.msg
          /\ StdinData(<<c, NL>>)
    \/ StoreCallback

SpecRead == Init /\ [][NextRead]_vars

----------------------------------------------------------------------------
(* The test client: MCPTestClient.  The server it talks to is its          *)
(* environment here: any line may arrive on the server's stdout, in any    *)
(* chunks, and the server may exit at any time with any code.              *)

\* characters delivered to the client in a run of the client specification
MaxOutput == 4

\* what the callbacks of the client read and write
Client == [pending |-> pending, timers |-> timers, settled |-> settled,
           decoded |-> decoded]

\* what a call's promise is settled with: a response message, the Timeout
\* error or the 'Server exited' error with its code
Resolved(message) == [by |-> "response", id |-> message.id, code |-> Running]
TimedOut(id) == [by |-> "timeout", id |-> id, code |-> Running]
Exited(id, code) == [by |-> "exit", id |-> id, code |-> code]

\* resolve or reject of the promise of call id is called with outcome
Settle(c, id, outcome) == [c EXCEPT !.settled[id] = Append(@, outcome)]

\* the resolve property of an entry: clearTimeout(timeout); resolve(response)
resolve(c, id, response) ==
    Settle([c EXCEPT !.timers = @ \ {id}], id, Resolved(response))

\* a reject property without clearTimeout
rejectKeepsTimer(c, id, error) == Settle(c, id, error)

\* the reject property of an entry: clearTimeout(timeout); reject(error)
reject(c, id, error) == Settle([c EXCEPT !.timers = @ \ {id}], id, error)

\* a setTimeout callback that leaves the entry of its call in pending
onTimeoutKeepsEntry(c, id) == Settle([c EXCEPT !.timers = @ \ {id}], id, TimedOut(id))

\* the setTimeout callback of call id: pending.delete(id); reject(Timeout)
onTimeout(c, id) ==
    Settle([c EXCEPT !.pending = @ \ {id}, !.timers = @ \ {id}], id, TimedOut(id))

\* a handler that empties pending when a response matches
onMessageClearsAll(c, message) ==
    IF message.id # NullId /\ message.id \in c.pending
    THEN resolve([c EXCEPT !.pending = {}, !.decoded = Append(@, message.id)],
                 message.id, message)
    ELSE [c EXCEPT !.decoded = Append(@, message.id)]

\* the body of the try for a parsed message
onMessage(c, message) ==
    IF message.id # NullId /\ message.id \in c.pending
    THEN resolve([c EXCEPT !.pending = @ \ {message.id},
                           !.decoded = Append(@, message.id)],
                 message.id, message)
    ELSE [c EXCEPT !.decoded = Append(@, message.id)]

RECURSIVE onData(_, _)
\* the while loop of the stdout 'data' handler: blank lines and lines that
\* are not JSON are skipped
onData(buf, c) ==
    LET newlineIndex == indexOf(buf, NL)
    IN IF newlineIndex = 0 THEN [buf |-> buf, c |-> c]
       ELSE LET line == trimEnd(trimStart(SubSeq(buf, 1, newlineIndex - 1)))
                rest == SubSeq(buf, newlineIndex + 1, Len(buf))
            IN IF line = <<>> \/ ParseFails(line) THEN onData(rest, c)
               ELSE onData(rest, onMessage(c, line[1].msg))

RECURSIVE RejectEach(_, _, _)
\* the for loop of the 'exit' handler over pending.entries(), a Map in the
\* order of insertion
RejectEach(c, ids, code) ==
    IF ids = {} THEN c
    ELSE LET id == CHOOSE i \in ids : \A j \in ids : i <= j
         IN RejectEach(reject(c, id, Exited(id, code)), ids \ {id}, code)

\* an 'exit' handler without pending.clear()
onExitKeepsEntries(c, code) == RejectEach(c, c.pending, code)

\* the 'exit' handler: every entry is rejected, then pending.clear()
onExit(c, code) == [RejectEach(c, c.pending, code) EXCEPT !.pending = {}]

\* MCPTestClient.call: the id, the timer and the entry; the request line goes
\* to the server's stdin
ClientCall ==
    /\ nextId <= MaxCalls
    /\ nextId' = nextId + 1
    /\ issued' = Append(issued, nextId)
    /\ timers' = timers \cup {nextId}
    /\ pending' = pending \cup {nextId}
    /\ settled' = Append(settled, <<>>)
    /\ decoded' = <<>>
    /\ UNCHANGED <<stdoutBuffer, exitCode, delivered>>
    /\ UNCHANGED serverVars

\* REQUEST_TIMEOUT_MS after its call, the timer of call id fires
Timeout(id) ==
    LET c == onTimeout(Client, id)
    IN /\ id \in timers
       /\ pending' = c.pending
       /\ timers' = c.timers
       /\ settled' = c.settled
       /\ decoded' = <<>>
       /\ UNCHANGED <<nextId, stdoutBuffer, exitCode, issued, delivered>>
       /\ UNCHANGED serverVars

\* a response line with the given id
Response(id) == Json(Message(id, "", "", NoArgs))

\* the ids of the responses: null, and the ids of the first two calls
ResponseIds == {NullId, 1, 2}

ClientAlphabet == {NL, Junk} \cup {Response(id) : id \in ResponseIds}

ClientChunks == UNION {[1..n -> ClientAlphabet] : n \in 1..(MaxOutput - delivered)}

\* the server's stdout emits 'data' with a chunk
StdoutData(chunk) ==
    LET l == onData(stdoutBuffer \o chunk, [Client EXCEPT !.decoded = <<>>])
    IN /\ stdoutBuffer' = l.buf
       /\ pending' = l.c.pending
       /\ timers' = l.c.timers
       /\ settled' = l.c.settled
       /\ decoded' = l.c.decoded
       /\ delivered' = delivered + Len(chunk)
       /\ UNCHANGED <<nextId, exitCode, issued>>
       /\ UNCHANGED serverVars

ExitCodes == {0, 1}

\* the server process emits 'exit'
ServerExit(code) ==
    LET c == onExit(Client, code)
    IN /\ exitCode = Running
       /\ exitCode' = code
       /\ pending' = c.pending
       /\ timers' = c.timers
       /\ settled' = c.settled
       /\ decoded' = <<>>
       /\ UNCHANGED <<nextId, stdoutBuffer, issued, delivered>>
       /\ UNCHANGED serverVars

NextClient ==
    \/ ClientCall
    \/ \E id \in timers : Timeout(id)
    \/ \E chunk \in ClientChunks : StdoutData(chunk)
    \/ \E code \in ExitCodes : ServerExit(code)

\* the client's run starts with a server that holds no project
InitEmpty == Init /\ projects = NoProjects

SpecClient == InitEmpty /\ [][NextClient]_vars

\* timers fire: the callback of an armed setTimeout runs in the end
SpecClientLive == SpecClient /\ \A id \in 1..MaxCalls : WF_vars(Timeout(id))

----------------------------------------------------------------------------
(* The process: startup, SIGINT and SIGTERM.  The handlers are registered  *)
(* before server = new MCPServer() and run from the event loop, so server  *)
(* and server.db are set when one runs.  sqlite3 runs a close after the    *)
(* handle has been opened; its callback may report an error, and then the  *)
(* handle is still open.                                                   *)

\* signals delivered in a run of the process specification
MaxSignals == 2

Signals == {"SIGINT", "SIGTERM"}

\* the callback of new sqlite3.Database(path, callback) without error
Opened ==
    /\ exitCode = Running
    /\ handle = "opening"
    /\ handle' = "initializing"
    /\ UNCHANGED <<inputBuffer, suspended, stdout, projects, tasks, sqlite_sequence,
                   total_changes, now, extracted, stream, lines, seen, wrote, taskWrite,
                   nextId, shutdown>>
    /\ UNCHANGED clientVars

\* the callback of this.db.exec(schema): ready resolves, and MCPServer.init
\* goes on to setupMessageHandling
Ready ==
    /\ exitCode = Running
    /\ handle = "initializing"
    /\ handle' = "ready"
    /\ UNCHANGED <<inputBuffer, suspended, stdout, projects, tasks, sqlite_sequence,
                   total_changes, now, extracted, stream, lines, seen, wrote, taskWrite,
                   nextId, shutdown>>
    /\ UNCHANGED clientVars

\* the handler of SIGINT or SIGTERM up to its await: server.db.close()
Signal(sig) ==
    /\ exitCode = Running
    /\ Len(shutdown) < MaxSignals
    /\ shutdown' = Append(shutdown, sig)
    /\ UNCHANGED <<inputBuffer, suspended, stdout, projects, tasks, sqlite_sequence,
                   total_changes, now, extracted, stream, lines, seen, wrote, taskWrite,
                   nextId, handle>>
    /\ UNCHANGED clientVars

\* the callback of this.db.close in Database.close, and the handler that
\* awaits it: an error is logged, the promise resolves, process.exit(0)
CloseCallback(err) ==
    [handle |-> IF err THEN handle ELSE "closed", exitCode |-> 0]

\* sqlite3 has run the close of the first handler
Closed(err) ==
    LET c == CloseCallback(err)
    IN /\ exitCode = Running
       /\ shutdown # <<>>
       /\ handle \in {"initializing", "ready"}
       /\ handle' = c.handle
       /\ exitCode' = c.exitCode
       /\ UNCHANGED <<inputBuffer, suspended, stdout, projects, tasks, sqlite_sequence,
                      total_changes, now, extracted, stream, lines, seen, wrote,
                      taskWrite, nextId, shutdown>>
       /\ UNCHANGED <<pending, timers, stdoutBuffer, issued, settled, decoded, delivered>>

ProcessAlphabet ==
    {Call("create_project", [name |-> W("a")]),
     Call("delete_project", [id |-> 1])}

\* the 'data' listener is attached once the store is ready, and nothing runs
\* after process.exit
NextProcess ==
    \/ Opened
    \/ Ready
    \/ \E sig \in Signals : Signal(sig)
    \/ \E err \in BOOLEAN : Closed(err)
    \/ \E shape \in LineChunks(ProcessAlphabet) :
          handle = "ready" /\ exitCode = Running /\ StdinData(shape)
    \/ handle = "ready" /\ exitCode = Running /\ StoreCallback

\* the process starts with the database file being opened
InitOpening == InitProcess /\ handle = "opening"

SpecProcess == InitOpening /\ [][NextProcess]_vars

----------------------------------------------------------------------------
(* The input as lines, and the responses to a line.                        *)

\* line k is one JSON document
IsJson(k) == ~ParseFails(lines[k])

\* line k is not blank and not JSON
IsInvalid(k) == lines[k] # <<>> /\ ParseFails(lines[k])

Req(k) == lines[k][1].msg

\* line k is a request with one of the three methods of the server
IsRequest(k) ==
    IsJson(k) /\ Req(k).method \in {"initialize", "tools/list", "tools/call"}

IsToolCall(k, name) ==
    IsJson(k) /\ Req(k).method = "tools/call" /\ Req(k).name = name

\* the positions in the output of the responses to line k
Answers(k) == {i \in DOMAIN stdout : stdout[i].line = k}

\* no invocation of the callback is waiting for the store
Idle == suspended = {}

----------------------------------------------------------------------------
(* C1.  Once delete_project(N) has been answered with success, the store   *)
(* holds no task with project_id N, and every get_tasks(project_id = N)    *)
(* answered after it returns the empty list.                               *)
C1_CascadeComplete ==
    \A i \in DOMAIN stdout :
        (IsToolCall(stdout[i].line, "delete_project") /\ stdout[i].error = "") =>
            LET N == Req(stdout[i].line).arguments.id
            IN /\ \A k \in DOMAIN tasks : tasks[k].project_id # N
               /\ \A j \in DOMAIN stdout :
                     (/\ j > i
                      /\ IsToolCall(stdout[j].line, "get_tasks")
                      /\ Req(stdout[j].line).arguments.project_id = N
                      /\ stdout[j].error = "") => stdout[j].result.tasks = {}

\* a project that owned a task was deleted and a later get_tasks for it answered
C1_Witness ==
    \E i, j \in DOMAIN stdout :
        /\ i < j
        /\ IsToolCall(stdout[i].line, "delete_project")
        /\ stdout[i].error = ""
        /\ seen[stdout[i].line].tasks # {}
        /\ IsToolCall(stdout[j].line, "get_tasks")
        /\ stdout[j].error = ""

(* C2.  Every request line with method initialize, tools/list or tools/call *)
(* is answered by exactly one response line, which carries the id of that  *)
(* request: never more than one, and one once the server has nothing left  *)
(* in flight.                                                              *)
C2_OneResponsePerRequest ==
    \A k \in DOMAIN lines :
        IsRequest(k) =>
            /\ Cardinality(Answers(k)) <= 1
            /\ \A i \in Answers(k) : stdout[i].id = Req(k).id
            /\ Idle => Cardinality(Answers(k)) = 1

(* C3.  Responses are written in the order of their requests: the response *)
(* to an earlier request line is never written after the response to a     *)
(* later one.                                                              *)
C3_ResponsesInRequestOrder ==
    \A i, j \in DOMAIN stdout :
        (i < j /\ IsRequest(stdout[i].line) /\ IsRequest(stdout[j].line)) =>
            stdout[i].line < stdout[j].line

C5_AnsweredAfterInvalidLine ==
    Idle =>
        \A k \in DOMAIN lines :
            (IsRequest(k) /\ \E j \in 1..(k - 1) : IsInvalid(j)) => Answers(k) # {}

(* C6.  A request with an unknown method is answered with an 'unknown      *)
(* method' error envelope carrying the id of the request, and id null is   *)
(* only on the errors of lines whose id could not be determined, the lines *)
(* that are not JSON.                                                      *)
C6_UnknownMethodKeepsId ==
    \A i \in DOMAIN stdout :
        LET k == stdout[i].line
        IN /\ (IsJson(k) /\ ~IsRequest(k)) =>
                  (stdout[i].error = UnknownMethod /\ stdout[i].id = Req(k).id)
           /\ stdout[i].id = NullId => IsInvalid(k)

\* a tools/call of a tool that is not in the switch
IsUnknownToolCall(k) ==
    IsJson(k) /\ Req(k).method = "tools/call" /\ Req(k).name \notin toolNames

(* C7.  A tools/call naming an unknown tool is answered with an error      *)
(* envelope carrying the id of the request and changes nothing in the      *)
(* store, and the server answers every well-formed request that follows    *)
(* it: once nothing is left in flight, the call and each request after it  *)
(* have their response.                                                    *)
C7_UnknownToolThenAllAnswered ==
    \A k \in DOMAIN lines :
        IsUnknownToolCall(k) =>
            /\ k \notin wrote
            /\ \A i \in Answers(k) : stdout[i] = ErrorEnvelope(Req(k).id, UnknownTool, k)
            /\ Idle =>
                   /\ Answers(k) # {}
                   /\ \A l \in DOMAIN lines : (l > k /\ IsRequest(l)) => Answers(l) # {}

\* an update_task whose arguments hold none of the allowed fields
IsEmptyUpdate(k) ==
    IsToolCall(k, "update_task") /\ SetClause(Updates(Req(k).arguments)) = {}

(* C8.  An update_task whose arguments contain none of the allowed fields  *)
(* fails with an error, whether the task exists or not, and writes         *)
(* nothing: none of its statements changes a row.                          *)
C8_EmptyUpdateFails ==
    \A k \in 1..extracted :
        IsEmptyUpdate(k) =>
            /\ k \notin wrote
            /\ Cardinality(Answers(k)) = 1
            /\ \A i \in Answers(k) : stdout[i] = ErrorEnvelope(Req(k).id, NoValidFields, k)

\* an empty update of an existing task and one of a nonexistent task were answered
C8_Witness ==
    \E k, l \in 1..extracted :
        /\ IsEmptyUpdate(k) /\ Req(k).arguments.id \in seen[k].tasks
        /\ IsEmptyUpdate(l) /\ Req(l).arguments.id \notin seen[l].tasks

\* id is not in the given table for the request of line k: it was already
\* deleted when the request was dispatched, or it has never been created
Missing(id, table, k) ==
    /\ id > 0
    /\ id \notin seen[k][table]
    /\ id <= seen[k].seq[table] \/ id > sqlite_sequence[table]

\* a delete_task or delete_project of an id that is not in the store
IsDeleteOfMissing(k) ==
    \/ IsToolCall(k, "delete_task") /\ Missing(Req(k).arguments.id, "tasks", k)
    \/ IsToolCall(k, "delete_project") /\ Missing(Req(k).arguments.id, "projects", k)

(* C9.  delete_task and delete_project of an id that is not in the store   *)
(* are answered with a 'not found' error, never with success, every time   *)
(* they are called, and change nothing in the store.                       *)
C9_DeleteMissingNotFound ==
    \A k \in 1..extracted :
        IsDeleteOfMissing(k) =>
            /\ k \notin wrote
            /\ \A i \in Answers(k) : stdout[i] = ErrorEnvelope(Req(k).id, NotFound, k)

\* the same missing id was deleted twice, and both calls were answered
C9_Witness ==
    \E k, l \in 1..extracted :
        /\ k < l
        /\ IsDeleteOfMissing(k) /\ IsDeleteOfMissing(l)
        /\ Req(k).name = Req(l).name
        /\ Req(k).arguments.id = Req(l).arguments.id
        /\ Answers(k) # {} /\ Answers(l) # {}

\* a request that passes the validation of its tool
PassesValidation(k) == ToolStart(Req(k).name, Req(k).arguments).kind = "await"

\* an add_task or get_project_summary of a project, or an update_task of a
\* task, that is not in the store
RefersToMissing(k) ==
    \/ IsToolCall(k, "add_task") /\ Missing(Req(k).arguments.project_id, "projects", k)
    \/ IsToolCall(k, "get_project_summary")
           /\ Missing(Req(k).arguments.project_id, "projects", k)
    \/ IsToolCall(k, "update_task") /\ Missing(Req(k).arguments.id, "tasks", k)

(* C10.  add_task and get_project_summary of a project that is not in the  *)
(* store, and update_task with an allowed field of a task that is not in   *)
(* the store, are answered with a 'not found' error envelope, and none of  *)
(* them writes to the store: add_task inserts no task.                     *)
C10_MissingReferenceNotFound ==
    \A k \in 1..extracted :
        (RefersToMissing(k) /\ PassesValidation(k)) =>
            /\ k \notin wrote
            /\ \A i \in Answers(k) : stdout[i] = ErrorEnvelope(Req(k).id, NotFound, k)

\* an add_task of a missing project and an update_task of a missing task
\* were both answered
C10_Witness ==
    \E k, l \in 1..extracted :
        /\ IsToolCall(k, "add_task") /\ RefersToMissing(k) /\ Answers(k) # {}
        /\ IsToolCall(l, "update_task") /\ RefersToMissing(l) /\ PassesValidation(l)
        /\ Answers(l) # {}


(* C11.  In every reachable state each stored task has a priority in       *)
(* {low, medium, high, critical} and a status in {pending, in-progress,    *)
(* developed, tested, deployed, blocked}: whatever value add_task or       *)
(* update_task is given for them, a value outside the set is never written. *)
C11_EnumeratedValuesOnly ==
    \A k \in DOMAIN tasks :
        /\ tasks[k].priority \in validPriorities
        /\ tasks[k].status \in validStatuses

(* C12.  In every reachable state every stored project has a name and      *)
(* every stored task a description that is non-empty after trimming.       *)
C12_RequiredTextNonEmpty ==
    /\ \A p \in DOMAIN projects :
          projects[p].name.t = "string" /\ trim(projects[p].name.v) # <<>>
    /\ \A k \in DOMAIN tasks :
          tasks[k].description.t = "string" /\ trim(tasks[k].description.v) # <<>>

\* response i is a success of the named tool
IsSuccessOf(i, names) ==
    /\ IsJson(stdout[i].line)
    /\ Req(stdout[i].line).method = "tools/call"
    /\ Req(stdout[i].line).name \in names
    /\ stdout[i].error = ""

(* C13.  Once add_task, update_task or delete_task has returned success,   *)
(* the project that owned the task has an updated_at that is not earlier   *)
(* than the moment the call wrote the task row.  (updated_at of a project  *)
(* never goes back, so this holds from the moment of the response on iff   *)
(* it holds at that moment.)                                               *)
C13_ProjectTouchedOnSuccess ==
    \A i \in DOMAIN stdout :
        IsSuccessOf(i, {"add_task", "update_task", "delete_task"}) =>
            LET w == taskWrite[stdout[i].line]
            IN w.project_id \in DOMAIN projects =>
                   projects[w.project_id].updated_at >= w.at

\* the suspended call h runs its statement in this step
Runs(h) == h \in suspended /\ h \notin suspended'

\* the fields of the rows of a table that differ between two states of it,
\* as pairs <<id, field>>
Changed(old, new) ==
    {c \in (DOMAIN old \cap DOMAIN new) \X
           {"project_id", "description", "priority", "status", "category", "assignee",
            "due_date", "notes", "name", "client", "created_at", "updated_at"} :
        c[2] \in DOMAIN old[c[1]] /\ old[c[1]][c[2]] # new[c[1]][c[2]]}

\* the update_task call h has not found its task missing: it is at its UPDATE,
\* or its UPDATE changed a row
Succeeding(h) ==
    h.msg.name = "update_task" /\ (h.at = "updateTask.update" \/ h.changes > 0)

\* what a statement of the update_task call h may change; the project of the
\* task is the one that owned it when the UPDATE ran
UpdateFrame(h) ==
    LET id == h.msg.arguments.id
        supplied == {f \in allowedFields : h.msg.arguments[f] # Undefined}
        owner == IF h.line \in DOMAIN taskWrite THEN {taskWrite[h.line].project_id} ELSE {}
    IN /\ DOMAIN tasks' = DOMAIN tasks
       /\ DOMAIN projects' = DOMAIN projects
       /\ sqlite_sequence' = sqlite_sequence
       /\ Changed(tasks, tasks') \subseteq {id} \X (supplied \cup {"updated_at"})
       /\ Changed(projects, projects') \subseteq owner \X {"updated_at"}

(* C14.  A successful update_task(id, args) changes only the allowed fields that     *)
(* args supplies, on task id, plus that task's updated_at and its          *)
(* project's updated_at: each statement of the call leaves the task's      *)
(* project_id, created_at and unsupplied fields, every other task, every   *)
(* other project and the set of rows as they are, and an argument outside  *)
(* the allowed set changes nothing.                                        *)
C14_UpdateFrame ==
    [][\A h \in suspended :
          (Succeeding(h) /\ Runs(h)) => UpdateFrame(h)]_vars

\* an update_task given an allowed and an unknown argument has returned
\* success at a later second than the task was created, with another task in
\* the store
C14_Witness ==
    \E i \in DOMAIN stdout :
        /\ IsSuccessOf(i, {"update_task"})
        /\ Req(stdout[i].line).arguments.unknown_field # Undefined
        /\ LET id == Req(stdout[i].line).arguments.id
           IN /\ id \in DOMAIN tasks
              /\ tasks[id].updated_at > tasks[id].created_at
              /\ DOMAIN tasks # {id}

\* the number of stored tasks of project N
TasksOf(N) == Cardinality({k \in DOMAIN tasks : tasks[k].project_id = N})

(* C15.  get_project_summary(N) of an existing project answers with a      *)
(* summary whose total is the number of stored tasks with project_id N at  *)
(* the time of the query: the step that runs the COUNT statement writes    *)
(* the response, and its total is the count in the store of that step.     *)
C15_SummaryTotalIsCount ==
    [][\A h \in suspended :
          (h.at = "getProjectSummary.get" /\ Runs(h)) =>
              /\ tasks' = tasks
              /\ \E i \in DOMAIN stdout' \ DOMAIN stdout :
                    /\ stdout'[i].line = h.line
                    /\ stdout'[i].id = h.msg.id
                    /\ stdout'[i].error = ""
                    /\ stdout'[i].result.project_id = h.msg.arguments.project_id
                    /\ stdout'[i].result.summary.total = TasksOf(h.msg.arguments.project_id)]_vars

\* a summary of a project that has a task was answered
C15_Witness ==
    \E i \in DOMAIN stdout :
        /\ IsSuccessOf(i, {"get_project_summary"})
        /\ stdout[i].result.summary.total > 0

\* n / d * 100 rounded to the nearest integer, a half going up
Rounded(n, d) == (200 * n + d) \div (2 * d)

(* C16.  In the summary of get_project_summary, completion_percentage is   *)
(* deployed / total * 100 rounded to the nearest integer and               *)
(* progress_percentage is (developed + tested + deployed) / total * 100    *)
(* rounded to the nearest integer; both are 0 when total is 0, both lie in *)
(* 0..100, and completion_percentage is at most progress_percentage.       *)
C16_Percentages ==
    \A i \in DOMAIN stdout :
        IsSuccessOf(i, {"get_project_summary"}) =>
            LET s == stdout[i].result.summary
                moving == s.developed + s.tested + s.deployed
            IN /\ s.total = 0 => (s.completion_percentage = 0 /\ s.progress_percentage = 0)
               /\ s.total > 0 =>
                      /\ s.completion_percentage = Rounded(s.deployed, s.total)
                      /\ s.progress_percentage = Rounded(moving, s.total)
               /\ s.completion_percentage \in 0..100
               /\ s.progress_percentage \in 0..100
               /\ s.completion_percentage <= s.progress_percentage

----------------------------------------------------------------------------
(* The test client.                                                        *)

\* the outcomes of the calls that have been settled
Outcomes(by) == {id \in DOMAIN settled : settled[id] # <<>> /\ settled[id][1].by = by}

\* the ids the client parsed in the last step, a 'data' event if there are any
Decoded == {decoded[k] : k \in DOMAIN decoded}

(* C17.  Every call of the client is settled at most once: resolve and     *)
(* reject of its promise are called once at most.  A call that has been    *)
(* settled, by its timeout or by a response, has no entry in pending and   *)
(* no armed timer, so a response with its id that arrives later is dropped *)
(* and its timeout does not reject it later.                               *)
C17_SettledAtMostOnce ==
    \A id \in DOMAIN settled :
        /\ Len(settled[id]) <= 1
        /\ settled[id] # <<>> => (id \notin pending /\ id \notin timers)

\* a call had timed out when the last 'data' event brought a response with
\* its id, and another call has been resolved by its response
C17_Witness ==
    /\ Outcomes("timeout") \cap Decoded # {}
    /\ Outcomes("response") # {}

\* this step is a 'data' event of the server's stdout
IsStdoutData == delivered' # delivered

(* C18.  The client gives its calls the ids 1, 2, 3, ... in this order, and *)
(* a parsed response with id i settles only the call that was given id i   *)
(* and was pending, with that response, and removes exactly that entry; a  *)
(* response whose id has no entry changes neither pending nor any call.    *)
C18_IdsAndMatching ==
    /\ [](\A k \in DOMAIN issued : issued[k] = k)
    /\ [][IsStdoutData =>
            LET hits == {decoded'[k] : k \in DOMAIN decoded'} \cap pending
            IN /\ pending' = pending \ hits
               /\ timers' = timers \ hits
               /\ \A id \in DOMAIN settled :
                     settled'[id] = IF id \in hits
                                    THEN Append(settled[id], [by |-> "response", id |-> id,
                                                              code |-> Running])
                                    ELSE settled[id]]_vars

\* the last 'data' event held the response to a pending call and a response
\* that matched no entry, while another call stayed pending
C18_Witness ==
    /\ Outcomes("response") \cap Decoded # {}
    /\ Decoded \ DOMAIN settled # {}
    /\ pending # {}
    /\ Len(issued) >= 2

\* this step is the 'exit' event of the server
IsServerExit == exitCode = Running /\ exitCode' # Running

\* this step is the timer of call id firing
IsTimeout(id) ==
    /\ id \in timers /\ id \notin timers'
    /\ delivered' = delivered /\ exitCode' = exitCode

(* C19.  When the server exits, every pending call is rejected with the    *)
(* 'Server exited' error carrying the exit code and pending becomes empty; *)
(* the timers of those calls are cleared, so none of them is rejected      *)
(* again by its timeout.  The timeout of one call removes and rejects that *)
(* call only: the other entries, timers and calls are untouched.           *)
C19_ExitRejectsAll ==
    /\ [][IsServerExit =>
            /\ pending' = {}
            /\ timers' \cap pending = {}
            /\ \A id \in DOMAIN settled :
                  settled'[id] = IF id \in pending
                                 THEN Append(settled[id], Exited(id, exitCode'))
                                 ELSE settled[id]]_vars
    /\ [](\A id \in Outcomes("exit") : Len(settled[id]) = 1 /\ id \notin timers)
    /\ [][\A id \in timers :
            IsTimeout(id) =>
                /\ pending' = pending \ {id}
                /\ timers' = timers \ {id}
                /\ settled' = [settled EXCEPT ![id] = Append(@, TimedOut(id))]]_vars

\* the server has exited with two calls pending, both rejected with its code
C19_Witness ==
    /\ exitCode # Running
    /\ \E i, j \in Outcomes("exit") :
          i # j /\ settled[i][1].code = exitCode /\ settled[j][1].code = exitCode

----------------------------------------------------------------------------
(* The process.                                                            *)

(* C20.  On SIGINT or SIGTERM the server closes the store handle and exits *)
(* only after the close has completed: whenever the process has exited in  *)
(* response to a signal, a handler had asked for the close and the handle  *)
(* is closed, also when the signal came during startup or with a tool call *)
(* in flight.                                                              *)
C20_ClosedBeforeExit ==
    exitCode # Running => (shutdown # <<>> /\ handle = "closed")

----------------------------------------------------------------------------
(* Reading back.                                                           *)

\* the tasks add_task has returned, as pairs <<task_id, project_id>>
Added ==
    {<<stdout[i].result.task_id, Req(stdout[i].line).arguments.project_id>> :
        i \in {j \in DOMAIN stdout : IsSuccessOf(j, {"add_task"})}}

\* a delete_task(M) or a delete_project(N) has succeeded: its DELETE has
\* removed the row
Removed(M, N) ==
    \E k \in wrote :
        \/ IsToolCall(k, "delete_task") /\ Req(k).arguments.id = M
        \/ IsToolCall(k, "delete_project") /\ Req(k).arguments.id = N

(* C21.  After add_task has returned task_id M for project N, every        *)
(* get_tasks(project_id = N) that runs before a delete_task(M) or a        *)
(* delete_project(N) has succeeded, that is before the DELETE of one has   *)
(* removed the row, returns a list that contains M, also after update_task *)
(* calls on M; every get_tasks that runs after one has succeeded returns a *)
(* list without M.  Every call whose DELETE removed the row is answered    *)
(* with success.                                                           *)
C21_VisibleUntilDeleted ==
    /\ [](\A k \in wrote :
            (IsToolCall(k, "delete_task") \/ IsToolCall(k, "delete_project")) =>
                /\ \A i \in Answers(k) : stdout[i].error = ""
                /\ Idle => Answers(k) # {})
    /\ [][\A h \in suspended :
          (h.at = "getTasks.all" /\ Runs(h)) =>
              \E j \in DOMAIN stdout' \ DOMAIN stdout :
                  /\ stdout'[j].line = h.line
                  /\ stdout'[j].error = ""
                  /\ \A a \in Added :
                        IF Removed(a[1], a[2])
                        THEN a[1] \notin stdout'[j].result.tasks
                        ELSE a[2] = h.msg.arguments.project_id =>
                                 a[1] \in stdout'[j].result.tasks]_vars

\* position i of the output is a get_tasks result that holds, or does not
\* hold, task M, which an add_task returned before it
ReadBack(i, M, holds) ==
    /\ IsSuccessOf(i, {"get_tasks"})
    /\ \E a \in DOMAIN stdout :
          /\ a < i
          /\ IsSuccessOf(a, {"add_task"})
          /\ stdout[a].result.task_id = M
    /\ (M \in stdout[i].result.tasks) = holds

\* a task that add_task returned was read back by get_tasks after an
\* update_task of it had succeeded
C21_Witness ==
    \E i, u \in DOMAIN stdout :
        /\ u < i
        /\ IsSuccessOf(u, {"update_task"})
        /\ ReadBack(i, Req(stdout[u].line).arguments.id, TRUE)

(* C22.  For every accepted create_project(name, client, description),     *)
(* fetching the project by the returned id right after the INSERT gives a  *)
(* row with the same name, client and description, an omitted client or    *)
(* description reading back as null.                                       *)
C22_CreateRoundTrip ==
    [][\A h \in suspended :
          (h.at = "createProject.run" /\ Runs(h)) =>
              \E j \in DOMAIN stdout' \ DOMAIN stdout :
                  /\ stdout'[j].line = h.line
                  /\ stdout'[j].error = ""
                  /\ LET args == h.msg.arguments
                         r == SelectProject(Store', stdout'[j].result.project_id)
                     IN /\ r.found
                        /\ r.row.name = args.name
                        /\ r.row.client = (IF args.client = Undefined THEN JNull
                                           ELSE args.client)
                        /\ r.row.description = (IF args.description = Undefined THEN JNull
                                                ELSE args.description)]_vars

\* a create_project given a client and no description was answered with an
\* id, under which the store holds that client and a null description
C22_Witness ==
    \E i \in DOMAIN stdout :
        /\ IsSuccessOf(i, {"create_project"})
        /\ Req(stdout[i].line).arguments.client # Undefined
        /\ Req(stdout[i].line).arguments.description = Undefined
        /\ LET r == SelectProject(Store, stdout[i].result.project_id)
           IN r.found /\ r.row.client # JNull /\ r.row.description = JNull

----------------------------------------------------------------------------
(* Framing and chunking.                                                   *)

RECURSIVE Fragment(_)
\* the characters of s after its last newline
Fragment(s) ==
    LET i == indexOf(s, NL)
    IN IF i = 0 THEN s ELSE Fragment(SubSeq(s, i + 1, Len(s)))

(* C23.  Framing does not depend on how the input is cut into chunks: the  *)
(* newline-terminated lines are taken from the buffer in input order, each *)
(* once; a blank line has no output and a non-blank one is answered once   *)
(* at most; and once nothing is in flight every terminated line has been   *)
(* taken and dispatched, and the buffer holds exactly the unterminated     *)
(* fragment at the end of the input.                                       *)
C23_FramingIgnoresChunking ==
    /\ extracted <= Len(lines)
    /\ DOMAIN seen = 1..extracted
    /\ \A k \in DOMAIN lines :
          IF lines[k] = <<>> THEN Answers(k) = {} ELSE Cardinality(Answers(k)) <= 1
    /\ Idle => (extracted = Len(lines) /\ inputBuffer = Fragment(stream))

----------------------------------------------------------------------------
(* The store under overlapping calls.                                      *)

(* C24.  In every reachable state every stored task's project_id is the id *)
(* of a stored project, also when a delete_project of the project runs     *)
(* between the existence check of an add_task and its INSERT: no orphan    *)
(* task ever exists.                                                       *)
C24_NoOrphanTask ==
    \A k \in DOMAIN tasks : tasks[k].project_id \in DOMAIN projects

\* an add_task found its project, a delete_project deleted it, and the
\* INSERT was rejected by the store
C24_Witness ==
    \E i \in DOMAIN stdout :
        /\ IsToolCall(stdout[i].line, "add_task")
        /\ stdout[i].error = Constraint
        /\ Req(stdout[i].line).arguments.project_id \in seen[stdout[i].line].projects
        /\ Req(stdout[i].line).arguments.project_id \notin DOMAIN projects

\* position i of the output is an error envelope that answers a tools/call
IsToolError(i) ==
    /\ IsJson(stdout[i].line)
    /\ Req(stdout[i].line).method = "tools/call"
    /\ stdout[i].error # ""

(* C25.  A tools/call that is answered with an error envelope (validation  *)
(* failure, not found, unknown tool, or a constraint failure of the store) *)
(* has left the store as it was: none of its statements inserted, changed  *)
(* or deleted a row, or touched an updated_at.                             *)
C25_ErrorLeavesStore ==
    \A i \in DOMAIN stdout : IsToolError(i) => stdout[i].line \notin wrote


(* C26.  For each project id at most one delete_project request is ever    *)
(* answered with success, also when two requests for the same id are       *)
(* handled overlappingly: the one whose DELETE removed no row is not       *)
(* answered with success.                                                  *)
C26_OneDeleteSucceeds ==
    \A i, j \in DOMAIN stdout :
        (/\ IsSuccessOf(i, {"delete_project"})
         /\ IsSuccessOf(j, {"delete_project"})
         /\ Req(stdout[i].line).arguments.id = Req(stdout[j].line).arguments.id) => i = j

----------------------------------------------------------------------------
(* The test client, when timers fire.                                      *)

(* C27.  Every call the client has issued is settled in the end, provided  *)
(* that timers fire: a call that has an entry in pending comes to have     *)
(* none, with its promise resolved by a response carrying its id, rejected *)
(* by the exit of the server, or rejected by its timeout; no entry stays   *)
(* in pending forever.                                                     *)
C27_EventuallySettled ==
    \A id \in 1..MaxCalls :
        (id \in pending) ~>
            (/\ id \notin pending
             /\ id \in DOMAIN settled
             /\ Len(settled[id]) = 1
             /\ settled[id][1] \in {Resolved([id |-> id]), TimedOut(id),
                                    Exited(id, exitCode)})

\* a call has been rejected by its timeout while the server is running and
\* has written nothing, and no call is pending
C27_Witness ==
    /\ Outcomes("timeout") # {}
    /\ delivered = 0
    /\ exitCode = Running
    /\ pending = {}
====
